---- MODULE Spec2Model ----
(***************************************************************************)
(* Order sequence allocation and event-driven notification pipeline of     *)
(* The Crooked Fence (Cloud Functions in functions/index.js, order form    *)
(* and dashboard in the React client).                                     *)
(*                                                                         *)
(* Strings are sequences of one-character strings, so that formatting,     *)
(* parsing and the store's string ordering are computed, not assumed.      *)
(*                                                                         *)
(* One order stream is modelled: assignOrderNumber takes the collection    *)
(* name as a parameter, each stream has its own counter document, and      *)
(* emailOnOrderCreate and emailOnLivestockOrderCreate differ in that name  *)
(* only.                                                                   *)
(***************************************************************************)
EXTENDS Integers, Sequences, FiniteSets, TLC

\* ------------------------------------------------------------------ bounds
MaxOrders == 2
MaxInvocations == 2
MaxDeletes == 1
MaxWrites == 2
MaxConfigLen == 3

\* --------------------------------------------------------------- constants
ORDER_NUMBER_PAD == 4

VARIABLES
    docs,        \* the order collection of one stream: id -> document
    counter,     \* orderCounters/<stream>: [exists, lastNumber]
    events,      \* create events the trigger system holds (at-least-once)
    inv,         \* on-create handler invocations (independent processes)
    commits,     \* history: numbers in the order their transactions committed
    deletes,     \* history: how many orders the dashboard has deleted
    initNumbers, \* history: the order numbers present before any allocation
    stock,       \* one stockItems document
    stockLog,    \* history: the stock writes and what the handler did on each
    apiKey,      \* RESEND_API_KEY / resend.api_key is configured
    adminEmail,  \* ADMIN_EMAIL / admin.email, the raw configured string
    resolved,    \* history: what getAdminRecipients returned for adminEmail
    order,       \* one order document, with the fields the mail handlers read
    draft,       \* the order modal's draft of the dashboard that shows it
    lastRun,     \* history: the handler runs the last write or call caused
    transport,   \* what the mail transport does with a handler's 1st and 2nd send
    submission   \* the order form: submitOrder's position and the form's state

allocVars == <<docs, counter, events, inv, commits, deletes, initNumbers>>
stockVars == <<stock, stockLog>>
configVars == <<apiKey, adminEmail, transport>>
resolverVars == <<resolved>>
mailVars == <<order, draft, lastRun>>
clientVars == <<submission>>
vars == <<docs, counter, events, inv, commits, deletes, initNumbers, stock, stockLog, apiKey, adminEmail, transport, resolved, order, draft, lastRun, submission>>

\* ------------------------------------------------------------ text helpers
DigitChars == <<"0", "1", "2", "3", "4", "5", "6", "7", "8", "9">>

IsDigit(c) == \E d \in 1..10 : DigitChars[d] = c

DigitVal(c) == (CHOOSE d \in 1..10 : DigitChars[d] = c) - 1

\* UTF-8 code of the characters order numbers are made of.
CharCode(c) == IF IsDigit(c) THEN 48 + DigitVal(c) ELSE 35

\* String(value) of a non-negative integer.
RECURSIVE NumToString(_)
NumToString(n) ==
    IF n < 10 THEN <<DigitChars[n + 1]>>
    ELSE NumToString(n \div 10) \o <<DigitChars[(n % 10) + 1]>>

\* String.prototype.padStart(targetLength, fill) with a one-character fill.
RECURSIVE padStart(_, _, _)
padStart(s, targetLength, fill) ==
    IF Len(s) >= targetLength THEN s
    ELSE padStart(<<fill>> \o s, targetLength, fill)

\* Number(match[1]) of a run of digits.
RECURSIVE DigitsToNum(_)
DigitsToNum(s) ==
    IF s = <<>> THEN 0
    ELSE 10 * DigitsToNum(SubSeq(s, 1, Len(s) - 1)) + DigitVal(s[Len(s)])

\* The first match of /(\d+)/ in s: the leftmost maximal run of digits.
FirstDigitRun(s) ==
    IF \A k \in 1..Len(s) : ~IsDigit(s[k]) THEN <<>>
    ELSE LET from == CHOOSE k \in 1..Len(s) :
                        /\ IsDigit(s[k])
                        /\ \A j \in 1..(k - 1) : ~IsDigit(s[j])
             to == CHOOSE k \in from..Len(s) :
                        /\ \A j \in from..k : IsDigit(s[j])
                        /\ (k = Len(s) \/ ~IsDigit(s[k + 1]))
         IN SubSeq(s, from, to)

parseOrderNumber(value) ==
    IF value = <<>> THEN 0
    ELSE LET match == FirstDigitRun(value)
         IN IF match = <<>> THEN 0 ELSE DigitsToNum(match)

formatOrderNumber(value) ==
    <<"#">> \o padStart(NumToString(value), ORDER_NUMBER_PAD, "0")

\* The store's ordering of string fields: byte-wise lexicographic.
RECURSIVE StringLess(_, _)
StringLess(s, t) ==
    IF t = <<>> THEN FALSE
    ELSE IF s = <<>> THEN TRUE
    ELSE IF CharCode(s[1]) # CharCode(t[1]) THEN CharCode(s[1]) < CharCode(t[1])
    ELSE StringLess(Tail(s), Tail(t))

\* ------------------------------------------------------- sequence allocator
NewIds == 1..MaxOrders

\* Orders that were in the collection before the counter record existed.
LegacyIds == {MaxOrders + 1, MaxOrders + 2}

OrderIds == NewIds \cup LegacyIds

Invocations == 1..MaxInvocations

NoDoc == [exists |-> FALSE, orderNumber |-> <<>>]

NoCounter == [exists |-> FALSE, lastNumber |-> 0]

Idle ==
    [pc |-> "idle", id |-> 0, snap |-> <<>>, readCounter |-> NoCounter,
     readScan |-> <<>>, next |-> 0, result |-> <<>>]

\* db.collection(c).orderBy("orderNumber", "desc").limit(1): the documents
\* that have the field, greatest string first; <<>> when the result is empty.
QueryLatest(d) ==
    LET have == {id \in OrderIds : d[id].exists /\ d[id].orderNumber # <<>>}
    IN IF have = {} THEN <<>>
       ELSE LET top == CHOOSE id \in have :
                          \A other \in have :
                              ~StringLess(d[id].orderNumber, d[other].orderNumber)
            IN d[top].orderNumber

\* lastNumber as the transaction function computes it from what it read.
\* The counter's lastNumber is only ever written by the transaction, as a
\* finite number, on which toNumber is the identity.
LastNumberRead(r) ==
    IF r.readCounter.exists THEN r.readCounter.lastNumber
    ELSE IF r.readScan # <<>> THEN parseOrderNumber(r.readScan)
    ELSE 0

\* A transaction function that returns the number it read, not the next.
TxReturnLast(r) == LastNumberRead(r)

\* const next = lastNumber + 1; ... return next
TxReturn(r) == LastNumberRead(r) + 1

\* The transaction commits only if what it read is still current.
TxValidNever(r) == TRUE

\* A store that refuses every commit.
TxValidRefused(r) == FALSE

TxValid(r) ==
    /\ counter = r.readCounter
    /\ (~r.readCounter.exists => QueryLatest(docs) = r.readScan)

\* ensureOrderNumber's short-circuit: the event's data already has a number.
HasOrderNumberNever(orderData) == FALSE

HasOrderNumber(orderData) == orderData.orderNumber # <<>>

\* submitOrder: addDoc of a payload that has no orderNumber field; the
\* trigger system records the create event with the created snapshot.
\* Document ids are opaque: they are named in the order they are created.
CreateOrder(id) ==
    /\ id \in NewIds
    /\ \A e \in events : e.id # id
    /\ \A lower \in 1..(id - 1) : \E e \in events : e.id = lower
    /\ docs' = [docs EXCEPT ![id] = [exists |-> TRUE, orderNumber |-> <<>>]]
    /\ events' = events \cup {[id |-> id, orderNumber |-> <<>>]}
    /\ UNCHANGED <<counter, inv, commits, deletes, initNumbers, stockVars, configVars, resolverVars, mailVars, clientVars>>

\* handleOrderDelete: deleteDoc of an order (admin dashboard).
DeleteOrder(id) ==
    /\ docs[id].exists
    /\ deletes < MaxDeletes
    /\ deletes' = deletes + 1
    /\ docs' = [docs EXCEPT ![id] = NoDoc]
    /\ UNCHANGED <<counter, events, inv, commits, initNumbers, stockVars, configVars, resolverVars, mailVars, clientVars>>

\* A delivery of a create event starts emailOnOrderCreate on the created
\* snapshot and runs it up to ensureOrderNumber's first await. Invocations
\* are named in the order they start.
Deliver(e, i) ==
    /\ e \in events
    /\ inv[i].pc = "idle"
    /\ \A j \in 1..(i - 1) : inv[j].pc # "idle"
    /\ inv' = [inv EXCEPT ![i] =
                 IF HasOrderNumber(e)
                 THEN [Idle EXCEPT !.pc = "emails", !.id = e.id,
                                   !.snap = e.orderNumber, !.result = e.orderNumber]
                 ELSE [Idle EXCEPT !.pc = "tx", !.id = e.id, !.snap = e.orderNumber]]
    /\ UNCHANGED <<docs, counter, events, commits, deletes, initNumbers, stockVars, configVars, resolverVars, mailVars, clientVars>>

\* The transaction function's reads: the counter, and the scan when absent.
TxRead(i) ==
    /\ inv[i].pc = "tx"
    /\ inv' = [inv EXCEPT ![i].pc = "commit",
                          ![i].readCounter = counter,
                          ![i].readScan = IF counter.exists THEN <<>>
                                          ELSE QueryLatest(docs)]
    /\ UNCHANGED <<docs, counter, events, commits, deletes, initNumbers, stockVars, configVars, resolverVars, mailVars, clientVars>>

\* tx.set(counterRef, {lastNumber: next}) and the commit.
TxCommit(i) ==
    /\ inv[i].pc = "commit"
    /\ TxValid(inv[i])
    /\ LET next == LastNumberRead(inv[i]) + 1
       IN /\ counter' = [exists |-> TRUE, lastNumber |-> next]
          /\ commits' = Append(commits, next)
          /\ inv' = [inv EXCEPT ![i].pc = "stamp", ![i].next = TxReturn(inv[i]),
                                ![i].readCounter = NoCounter, ![i].readScan = <<>>]
    /\ UNCHANGED <<docs, events, deletes, initNumbers, stockVars, configVars, resolverVars, mailVars, clientVars>>

\* The commit is refused (a concurrent commit changed what was read) and
\* runTransaction runs the function again.
TxAbort(i) ==
    /\ inv[i].pc = "commit"
    /\ ~TxValid(inv[i])
    /\ inv' = [inv EXCEPT ![i].pc = "tx", ![i].readCounter = NoCounter,
                          ![i].readScan = <<>>]
    /\ UNCHANGED <<docs, counter, events, commits, deletes, initNumbers, stockVars, configVars, resolverVars, mailVars, clientVars>>

\* runTransaction rejects (attempts exhausted, store unavailable): the
\* handler invocation ends with the error, nothing written.
TxFail(i) ==
    /\ inv[i].pc \in {"tx", "commit"}
    /\ inv' = [inv EXCEPT ![i].pc = "failed", ![i].readCounter = NoCounter,
                          ![i].readScan = <<>>]
    /\ UNCHANGED <<docs, counter, events, commits, deletes, initNumbers, stockVars, configVars, resolverVars, mailVars, clientVars>>

\* orderRef.set({orderNumber: formatted}, {merge: true}): merges into the
\* order, and creates the document when it is not there (a create event).
Stamp(i) ==
    /\ inv[i].pc = "stamp"
    /\ LET formatted == formatOrderNumber(inv[i].next)
           id == inv[i].id
       IN /\ docs' = [docs EXCEPT ![id] = [exists |-> TRUE, orderNumber |-> formatted]]
          /\ events' = IF docs[id].exists THEN events
                       ELSE events \cup {[id |-> id, orderNumber |-> formatted]}
          /\ inv' = [inv EXCEPT ![i].pc = "emails", ![i].result = formatted]
    /\ UNCHANGED <<counter, commits, deletes, initNumbers, stockVars, configVars, resolverVars, mailVars, clientVars>>

\* A failed stamping write that gave the reserved number back.
StampFailRollback(i) ==
    /\ inv[i].pc = "stamp"
    /\ inv' = [inv EXCEPT ![i].pc = "stampFailed"]
    /\ counter' = [counter EXCEPT !.lastNumber = inv[i].next - 1]
    /\ UNCHANGED <<docs, events, commits, deletes, initNumbers, stockVars, configVars, resolverVars, mailVars, clientVars>>

\* The stamping write rejects: the handler invocation ends with the error.
StampFail(i) ==
    /\ inv[i].pc = "stamp"
    /\ inv' = [inv EXCEPT ![i].pc = "stampFailed"]
    /\ UNCHANGED <<docs, counter, events, commits, deletes, initNumbers, stockVars, configVars, resolverVars, mailVars, clientVars>>

\* What a stream can carry from before its counter record (orders imported
\* or restored without orderCounters): numbers formatOrderNumber wrote. No
\* numbered order, one, or one each side of the padding width.
LegacyStates ==
    {{}, {formatOrderNumber(9999)}, {formatOrderNumber(9999), formatOrderNumber(10000)}}

LegacyDocs(numbers) ==
    CHOOSE f \in [LegacyIds -> {NoDoc} \cup
                      {[exists |-> TRUE, orderNumber |-> n] : n \in numbers}] :
        /\ \A n \in numbers : \E id \in LegacyIds : f[id].orderNumber = n
        /\ \A a, b \in LegacyIds :
               (a # b /\ f[a].exists /\ f[b].exists) => f[a].orderNumber # f[b].orderNumber

AllocInit ==
    \E numbers \in LegacyStates :
        /\ docs = [id \in OrderIds |->
                      IF id \in LegacyIds THEN LegacyDocs(numbers)[id] ELSE NoDoc]
        /\ initNumbers = numbers
        /\ counter = NoCounter
        /\ events = {}
        /\ inv = [i \in Invocations |-> Idle]
        /\ commits = <<>>
        /\ deletes = 0

AllocNext ==
    \/ \E id \in NewIds : CreateOrder(id)
    \/ \E id \in OrderIds : DeleteOrder(id)
    \/ \E e \in events, i \in Invocations : Deliver(e, i)
    \/ \E i \in Invocations : TxRead(i)
    \/ \E i \in Invocations : TxCommit(i)
    \/ \E i \in Invocations : TxAbort(i)
    \/ \E i \in Invocations : TxFail(i)
    \/ \E i \in Invocations : Stamp(i)
    \/ \E i \in Invocations : StampFail(i)

\* The steps a started invocation takes on its own: the transaction's
\* reads, the outcome of its commit, the outcome of the stamping write.
HandlerStep(i) ==
    \/ TxFail(i)
    \/ StampFail(i)
    \/ TxRead(i)
    \/ TxCommit(i)
    \/ TxAbort(i)
    \/ Stamp(i)

\* The functions runtime keeps running every invocation it has started.
HandlerFairness == \A i \in Invocations : WF_vars(HandlerStep(i))

\* -------------------------------------------------------- recipient resolver
\* Addresses are written with one letter each: "b" bradsgbaker14@gmail.com,
\* "a" admin@thecrookedfence.co.za, "s" stolschristopher60@gmail.com, "x" any
\* other address; a capital is the same address typed in upper case.
ADMIN_EMAIL_EXCLUSIONS == {<<"b">>, <<"a">>}

ADMIN_EMAIL_FALLBACKS == << <<"s">> >>

IsSeparator(c) == c \in {";", ",", " "}

ToLowerChar(c) ==
    CASE c = "A" -> "a" [] c = "B" -> "b" [] c = "S" -> "s" [] c = "X" -> "x"
      [] OTHER -> c

\* A comparison that does not fold case.
toLowerCaseIdentity(s) == s

toLowerCase(s) == [k \in 1..Len(s) |-> ToLowerChar(s[k])]

\* String.prototype.trim for the one white-space character modelled.
RECURSIVE trim(_)
trim(s) ==
    IF s = <<>> THEN s
    ELSE IF s[1] = " " THEN trim(Tail(s))
    ELSE IF s[Len(s)] = " " THEN trim(SubSeq(s, 1, Len(s) - 1))
    ELSE s

RECURSIVE DropSeparators(_)
DropSeparators(s) ==
    IF s # <<>> /\ IsSeparator(s[1]) THEN DropSeparators(Tail(s)) ELSE s

\* String.prototype.split(/[;,\s]+/): the pieces between runs of separators
\* (an empty piece at either end when the string starts or ends with one).
RECURSIVE SplitFrom(_, _)
SplitFrom(s, piece) ==
    IF s = <<>> THEN <<piece>>
    ELSE IF IsSeparator(s[1]) THEN <<piece>> \o SplitFrom(DropSeparators(s), <<>>)
    ELSE SplitFrom(Tail(s), Append(piece, s[1]))

split(s) == SplitFrom(s, <<>>)

RECURSIVE FilterAddresses(_)
FilterAddresses(pieces) ==
    IF pieces = <<>> THEN <<>>
    ELSE LET address == trim(pieces[1])
             rest == FilterAddresses(Tail(pieces))
         IN IF address # <<>> /\ toLowerCase(address) \notin ADMIN_EMAIL_EXCLUSIONS
            THEN <<address>> \o rest
            ELSE rest

\* A resolver without the fallback list.
getAdminRecipientsNoFallback(email) == FilterAddresses(split(email))

getAdminRecipients(email) ==
    IF email = <<>> THEN <<>>
    ELSE LET recipients == FilterAddresses(split(email))
         IN IF Len(recipients) > 0 THEN recipients ELSE ADMIN_EMAIL_FALLBACKS

\* ---------------------------------------------------------- threshold watcher
\* A stored field value: a finite number, or anything Number() makes NaN of.
Fin(n) == [finite |-> TRUE, val |-> n]

NotANumber == [finite |-> FALSE, val |-> 0]

toNumber(value) == IF value.finite THEN value.val ELSE 0

Quantities == {Fin(3), Fin(4), Fin(10)}

Thresholds == {Fin(0), Fin(3), Fin(5), NotANumber}

NoStock == [exists |-> FALSE, quantity |-> Fin(0), threshold |-> Fin(0)]

StockDoc(q, t) == [exists |-> TRUE, quantity |-> q, threshold |-> t]

AdminEmailConfigs == {<<>>, <<"x">>, <<"b">>}

\* A watcher that needs a before-state to alert.
StockSignalNeedsBefore(before, after) ==
    /\ after.exists
    /\ before.exists
    /\ toNumber(after.threshold) > 0
    /\ toNumber(before.quantity) > toNumber(after.threshold)
    /\ toNumber(after.quantity) <= toNumber(after.threshold)

\* stockThresholdAlert up to the decision to alert: TRUE when the handler
\* reaches the branch that composes the alert.
StockSignal(before, after) ==
    IF ~after.exists THEN FALSE
    ELSE LET threshold == toNumber(after.threshold)
             afterQty == toNumber(after.quantity)
         IN IF threshold <= 0 THEN FALSE
            ELSE IF before.exists /\ toNumber(before.quantity) <= threshold THEN FALSE
            ELSE (~before.exists \/ toNumber(before.quantity) > threshold)
                     /\ afterQty <= threshold

\* recipients.filter(Boolean): an empty string is falsy.
Truthy(address) == address # <<>>

\* A sendEmail that returns without a word when there is no key.
sendEmailSilent(to) ==
    IF ~apiKey \/ SelectSeq(to, Truthy) = <<>> THEN [threw |-> FALSE, sent |-> 0]
    ELSE [threw |-> FALSE, sent |-> 1]

\* A sendEmail that hands the recipients to the transport as they come.
sendEmailUnfiltered(to) ==
    IF ~apiKey THEN [threw |-> TRUE, sent |-> 0]
    ELSE IF Len(to) = 0 THEN [threw |-> FALSE, sent |-> 0]
    ELSE [threw |-> FALSE, sent |-> 1]

\* sendEmail: "config" when it throws for the missing key, the number of
\* calls of the transport otherwise.
sendEmail(to) ==
    IF ~apiKey THEN [threw |-> TRUE, sent |-> 0]
    ELSE LET filtered == SelectSeq(to, Truthy)
         IN IF Len(filtered) = 0 THEN [threw |-> FALSE, sent |-> 0]
            ELSE [threw |-> FALSE, sent |-> 1]

\* One invocation of stockThresholdAlert on a write before -> after.
StockThresholdAlert(before, after) ==
    IF ~StockSignal(before, after)
    THEN [before |-> before, after |-> after, signal |-> FALSE, threw |-> FALSE, sent |-> 0]
    ELSE LET adminRecipients == getAdminRecipients(adminEmail)
             mail == IF Len(adminRecipients) = 0 THEN [threw |-> FALSE, sent |-> 0]
                     ELSE sendEmail(adminRecipients)
         IN [before |-> before, after |-> after, signal |-> TRUE,
             threw |-> mail.threw, sent |-> mail.sent]

\* A write to stockItems/{itemId} and the handler invocation it triggers.
StockWrite(after) ==
    /\ Len(stockLog) < MaxWrites
    /\ stock' = after
    /\ stockLog' = Append(stockLog, StockThresholdAlert(stock, after))
    /\ UNCHANGED <<allocVars, configVars, resolverVars, mailVars, clientVars>>

\* handleAddStockItem: addDoc with the draft's quantity and threshold.
AddStockItem(q, t) ==
    /\ ~stock.exists
    /\ StockWrite(StockDoc(q, t))

\* handleUpdateStockItem: updateDoc of the quantity (and notes).
UpdateStockItem(q) ==
    /\ stock.exists
    /\ StockWrite(StockDoc(q, stock.threshold))

\* Any other write of the document (inventory flows outside the dashboard):
\* the trigger fires on every write, whichever fields it changes.
WriteStockItem(q, t) ==
    /\ stock.exists
    /\ t # stock.threshold
    /\ StockWrite(StockDoc(q, t))

\* handleDeleteStockCategory: deleteDoc of the item.
DeleteStockItem ==
    /\ stock.exists
    /\ StockWrite(NoStock)

NoOrder ==
    [exists |-> FALSE, email |-> <<>>, sendDate |-> <<>>, orderStatus |-> "",
     orderNumber |-> <<>>, paid |-> FALSE, trackingLink |-> <<>>,
     internalNote |-> <<>>, dispatchEmailSentAt |-> FALSE]

NoDraft == [sendDate |-> <<>>]

MailIdle == order = NoOrder /\ draft = NoDraft /\ lastRun = <<>>

\* resend.emails.send resolves, or rejects (the request does not get through).
TransportOutcomes == {"accepts", "rejects"}

TransportUp == <<"accepts", "accepts">>

TransportStates == [1..2 -> TransportOutcomes]

\* The order form before submitOrder: filled in, nothing shown.
NoSubmission ==
    [pc |-> "form", created |-> FALSE, reads |-> 0, emptyReads |-> 0,
     sleeps |-> 0, waited |-> 0, updatedOrderNumber |-> <<>>,
     orderNumber |-> <<>>, success |-> "",
     error |-> "", isModalOpen |-> FALSE, formFilled |-> TRUE,
     isSubmitting |-> FALSE]

ClientIdle == submission = NoSubmission

NotResolved == [done |-> FALSE, recipients |-> <<>>]

ResolverIdle == resolved = NotResolved

AllocIdle ==
    /\ docs = [id \in OrderIds |-> NoDoc]
    /\ initNumbers = {}
    /\ counter = NoCounter
    /\ events = {}
    /\ inv = [i \in Invocations |-> Idle]
    /\ commits = <<>>
    /\ deletes = 0

StockInit == stock = NoStock /\ stockLog = <<>>

ConfigInit ==
    /\ apiKey \in BOOLEAN
    /\ adminEmail \in AdminEmailConfigs
    /\ transport = TransportUp

InitStock == AllocIdle /\ StockInit /\ ConfigInit /\ ResolverIdle /\ MailIdle /\ ClientIdle

NextStock ==
    \/ \E q \in Quantities, t \in Thresholds : AddStockItem(q, t)
    \/ \E q \in Quantities : UpdateStockItem(q)
    \/ \E q \in Quantities, t \in Thresholds : WriteStockItem(q, t)
    \/ DeleteStockItem

SpecStock == InitStock /\ [][NextStock]_vars


StockIdle == stock = NoStock /\ stockLog = <<>>

ConfigDefault == apiKey = TRUE /\ adminEmail = <<>> /\ transport = TransportUp

Init == AllocInit /\ StockIdle /\ ConfigDefault /\ ResolverIdle /\ MailIdle /\ ClientIdle

Next == AllocNext

Spec == Init /\ [][Next]_vars

\* The allocator with its handlers scheduled fairly.
SpecFair == Init /\ [][Next]_vars /\ HandlerFairness

\* ------------------------------------------- recipient resolver, every input
\* The characters a configured string is made of: two addresses in lower
\* and upper case and the three kinds of separator.
ConfigChars == {"x", "X", "b", "B", ",", ";", " "}

ConfigStrings == UNION {[1..n -> ConfigChars] : n \in 0..MaxConfigLen}

InitRecipients ==
    /\ AllocIdle /\ StockIdle /\ MailIdle /\ ClientIdle
    /\ apiKey = TRUE
    /\ transport = TransportUp
    /\ adminEmail \in ConfigStrings
    /\ resolved = NotResolved

\* One call of getAdminRecipients with the configured string.
Resolve ==
    /\ ~resolved.done
    /\ resolved' = [done |-> TRUE, recipients |-> getAdminRecipients(adminEmail)]
    /\ UNCHANGED <<allocVars, stockVars, configVars, mailVars, clientVars>>

NextRecipients == Resolve

SpecRecipients == InitRecipients /\ [][NextRecipients]_vars

\* ------------------------------------------------------------ mail handlers
\* One order of one stream. An address is written with one letter: "c" the
\* customer's address, " " an address field that holds white space only.
ORDER_STATUSES ==
    {"pending", "waiting_list", "cancelled", "packed", "scheduled_dispatch",
     "shipped", "completed", "archived"}

SendDates == {<<>>, <<"d">>}

TrackingLinks == {<<>>, <<"t">>}

InternalNotes == {<<>>, <<"n">>}

\* The email field of a document that did not come through the order form.
ImportedEmails == {<<>>, <<" ">>, <<"c">>}

\* The orderNumber field of such a document: none, or a number it brings.
ImportedNumbers == {<<>>, formatOrderNumber(7)}

\* submitOrder's payload, after validate(): email and sendDate are there.
FormOrder ==
    [exists |-> TRUE, email |-> <<"c">>, sendDate |-> <<"d">>,
     orderStatus |-> "pending", orderNumber |-> <<>>, paid |-> FALSE,
     trackingLink |-> <<>>, internalNote |-> <<>>, dispatchEmailSentAt |-> FALSE]

\* What one handler invocation did: the sends it made (calls of
\* resend.emails.send, named by their recipient, in order), the error it
\* ended with, and whether it wrote the order; and of what it was given,
\* the order's statuses, email, send date and number, or the recipients.
NewRun(kind, previousStatus, nextStatus, orderData) ==
    [kind |-> kind, write |-> "", previousStatus |-> previousStatus,
     nextStatus |-> nextStatus, email |-> orderData.email,
     sendDate |-> orderData.sendDate, orderNumber |-> orderData.orderNumber,
     to |-> <<>>, calls |-> <<>>, error |-> "none", wrote |-> FALSE]

\* A sender that tries a rejected send once more.
SendWithRetry(run, to, label) ==
    IF run.error # "none" THEN run
    ELSE LET mail == sendEmail(to)
             rejected == transport[Len(run.calls) + 1] = "rejects"
         IN IF mail.threw THEN [run EXCEPT !.error = "failed-precondition: key"]
            ELSE IF mail.sent = 0 THEN run
            ELSE IF rejected
                 THEN [run EXCEPT !.calls = Append(Append(@, label), label),
                                 !.error = "transport"]
                 ELSE [run EXCEPT !.calls = Append(@, label)]

\* A sender that goes on after a rejected send.
SendMasking(run, to, label) ==
    IF run.error # "none" THEN run
    ELSE LET mail == sendEmail(to)
         IN IF mail.threw THEN [run EXCEPT !.error = "failed-precondition: key"]
            ELSE IF mail.sent = 0 THEN run
            ELSE [run EXCEPT !.calls = Append(@, label)]

\* await sendEmail(...) inside a handler: nothing once the handler has
\* thrown; the configuration error when there is no key; the transport's
\* rejection when resend.emails.send rejects.
Send(run, to, label) ==
    IF run.error # "none" THEN run
    ELSE LET mail == sendEmail(to)
             rejected == transport[Len(run.calls) + 1] = "rejects"
         IN IF mail.threw THEN [run EXCEPT !.error = "failed-precondition: key"]
            ELSE IF mail.sent = 0 THEN run
            ELSE [run EXCEPT !.calls = Append(@, label),
                             !.error = IF rejected THEN "transport" ELSE "none"]

\* Senders that end after the customer send.
SendCustomerOnly(run, email) ==
    IF email # <<>> THEN Send(run, <<email>>, "customer") ELSE run

\* The customer send, then the admin send, as both senders end.
SendBoth(run, email) ==
    LET adminRecipients == getAdminRecipients(adminEmail)
        afterCustomer == IF email # <<>> THEN Send(run, <<email>>, "customer") ELSE run
    IN IF Len(adminRecipients) > 0
       THEN Send(afterCustomer, adminRecipients, "admin")
       ELSE afterCustomer

\* A suppressed set that lets cancellations through.
suppressedArchivedOnly == {"archived"}

suppressed == {"archived", "cancelled"}

sendOrderStatusEmails(run, orderData, nextStatus) ==
    IF nextStatus = "" \/ nextStatus \in suppressed THEN run
    ELSE SendBoth(run, orderData.email)

\* A handler that notifies on every update.
emailOnEveryUpdate(before, after) ==
    sendOrderStatusEmails(NewRun("update", before.orderStatus, after.orderStatus, after),
                          after, after.orderStatus)

\* emailOnStatusChange / emailOnLivestockStatusChange on one update event.
emailOnStatusChange(before, after) ==
    LET run == NewRun("update", before.orderStatus, after.orderStatus, after)
    IN IF before.orderStatus = after.orderStatus THEN run
       ELSE sendOrderStatusEmails(run, after, after.orderStatus)

\* An on-create handler that allocates and sends nothing.
sendNoOrderCreatedEmails(run, orderData) == run

sendOrderCreatedEmails(run, orderData) == SendBoth(run, orderData.email)

\* The update event of a write of `field` that took the order to `after`,
\* handled.
UpdateRun(field, after) ==
    [emailOnStatusChange(order, after) EXCEPT !.write = field]

\* An on-create handler that sends its emails whatever the allocation did.
CreatedRunRegardless(snap, numbered, allocated) ==
    sendOrderCreatedEmails(NewRun("create", "", snap.orderStatus, numbered), numbered)

\* What emailOnOrderCreate does after ensureOrderNumber: the emails for the
\* order with the number it returned, or nothing when it threw.
CreatedRun(snap, numbered, allocated) ==
    IF allocated
    THEN sendOrderCreatedEmails(NewRun("create", "", snap.orderStatus, numbered), numbered)
    ELSE [NewRun("create", "", snap.orderStatus, snap) EXCEPT !.error = "allocation"]

\* emailOnOrderCreate on the created snapshot. ensureOrderNumber returns
\* the snapshot's number when it has one; otherwise it allocates: the
\* counter transaction and the stamping write each succeed or reject, and a
\* rejection ends the handler. The stamping write is an update of the order
\* and has its own update event.
OrderCreated(snap, txOk, stampOk) ==
    LET next == TxReturn([readCounter |-> counter, readScan |-> <<>>])
        stamped == [snap EXCEPT !.orderNumber = formatOrderNumber(next)]
    IN /\ IF HasOrderNumber(snap)
          THEN /\ counter' = counter
               /\ order' = snap
               /\ lastRun' = << CreatedRun(snap, snap, TRUE) >>
          ELSE /\ counter' = IF txOk THEN [exists |-> TRUE, lastNumber |-> next]
                                     ELSE counter
               /\ IF txOk /\ stampOk
                  THEN /\ order' = stamped
                       /\ lastRun' = << [CreatedRun(snap, stamped, TRUE) EXCEPT !.wrote = TRUE],
                                        [emailOnStatusChange(snap, stamped)
                                             EXCEPT !.write = "orderNumber"] >>
                  ELSE /\ order' = snap
                       /\ lastRun' = << CreatedRun(snap, stamped, FALSE) >>
       /\ draft' = [sendDate |-> snap.sendDate]
       /\ UNCHANGED <<docs, events, inv, commits, deletes, initNumbers,
                      stockVars, configVars, resolverVars, clientVars>>

\* submitOrder: addDoc of the validated form, and the create event handled.
SubmitOrder(txOk, stampOk) ==
    /\ ~order.exists
    /\ OrderCreated(FormOrder, txOk, stampOk)

\* A document created in the collection by anything else (an import, the
\* console): the trigger runs on every created document, and the handlers
\* have a branch for a missing email.
ImportOrder(email, sendDate, orderNumber, txOk, stampOk) ==
    /\ ~order.exists
    /\ OrderCreated([FormOrder EXCEPT !.email = email, !.sendDate = sendDate,
                                      !.orderNumber = orderNumber],
                    txOk, stampOk)

\* updateDoc from the dashboard that changes the document, the update event
\* handled, and the modal's draft reset from the order it is shown.
OrderWrite(field, after) ==
    /\ order.exists
    /\ after # order
    /\ order' = after
    /\ draft' = [sendDate |-> after.sendDate]
    /\ lastRun' = << UpdateRun(field, after) >>
    /\ UNCHANGED <<allocVars, stockVars, configVars, resolverVars, clientVars>>

handleStatusChange(value) ==
    OrderWrite("orderStatus", [order EXCEPT !.orderStatus = value])

handlePaidToggle == OrderWrite("paid", [order EXCEPT !.paid = ~order.paid])

handleTrackingSave(value) ==
    OrderWrite("trackingLink", [order EXCEPT !.trackingLink = value])

handleInternalNoteSave(value) ==
    OrderWrite("internalNote", [order EXCEPT !.internalNote = value])

\* handleSendDateChange: the draft takes the value first; handleOrderUpdate
\* catches a rejected updateDoc, and the draft keeps the value.
handleSendDateChange(value, writeOk) ==
    /\ order.exists
    /\ value # draft.sendDate
    /\ IF writeOk /\ value # order.sendDate
       THEN OrderWrite("sendDate", [order EXCEPT !.sendDate = value])
       ELSE /\ draft' = [sendDate |-> value]
            /\ lastRun' = <<>>
            /\ UNCHANGED <<order, allocVars, stockVars, configVars, resolverVars, clientVars>>

\* sendDispatchEmail, called by staff for an order that exists, up to its
\* write of dispatchEmailSentAt.
sendDispatchEmail(orderData) ==
    LET run == NewRun("dispatch", orderData.orderStatus, orderData.orderStatus, orderData)
        email == trim(orderData.email)
    IN IF email = <<>> THEN [run EXCEPT !.error = "failed-precondition: order"]
       ELSE LET sent == Send(run, <<email>>, "customer")
            IN [sent EXCEPT !.wrote = (sent.error = "none")]

\* One call of the callable, and the update event of its write handled.
DispatchCall ==
    LET run == sendDispatchEmail(order)
        after == [order EXCEPT !.dispatchEmailSentAt = TRUE]
    IN /\ order.exists
       /\ IF run.wrote
          THEN /\ order' = after
               /\ lastRun' = << run, UpdateRun("dispatchEmailSentAt", after) >>
               /\ draft' = [sendDate |-> after.sendDate]
          ELSE /\ lastRun' = << run >>
               /\ UNCHANGED <<order, draft>>
       /\ UNCHANGED <<allocVars, stockVars, configVars, resolverVars, clientVars>>

\* data.to of a sendTestEmail call: an array, or one address ("" when none
\* is given) that the callable wraps in an array.
TestRecipients == {<<>>, << <<>> >>, << <<"c">> >>, << <<>>, <<"c">> >>}

\* sendTestEmail, called by an admin: one sendEmail with the given list.
sendTestEmail(to) ==
    Send([NewRun("test", "", "", NoOrder) EXCEPT !.to = to], to, "test")

TestCall(to) ==
    /\ lastRun' = << sendTestEmail(to) >>
    /\ UNCHANGED <<order, draft, allocVars, stockVars, configVars, resolverVars, clientVars>>

canSendDispatch == order.email # <<>> /\ draft.sendDate # <<>>

\* handleDispatchEmail: the modal's button, enabled by canSendDispatch.
handleDispatchEmail ==
    /\ canSendDispatch
    /\ DispatchCall

\* The callable called by any other staff client.
CallSendDispatchEmail == DispatchCall

\* ADMIN_EMAIL unset, or set to an address that is not excluded.
MailAdminEmails == {<<>>, <<"x">>}

\* Any configuration, and with a key (without one the transport is never
\* reached) a transport that takes or rejects each send.
MailConfigInit ==
    /\ apiKey \in BOOLEAN
    /\ adminEmail \in MailAdminEmails
    /\ transport \in IF apiKey THEN TransportStates ELSE {TransportUp}

InitMail ==
    /\ AllocIdle /\ StockIdle /\ ResolverIdle /\ MailIdle /\ ClientIdle
    /\ MailConfigInit

NextMail ==
    \/ \E txOk, stampOk \in BOOLEAN : SubmitOrder(txOk, stampOk)
    \/ \E email \in ImportedEmails, sendDate \in SendDates,
          orderNumber \in ImportedNumbers, txOk, stampOk \in BOOLEAN :
           ImportOrder(email, sendDate, orderNumber, txOk, stampOk)
    \/ \E value \in ORDER_STATUSES : handleStatusChange(value)
    \/ handlePaidToggle
    \/ \E value \in TrackingLinks : handleTrackingSave(value)
    \/ \E value \in InternalNotes : handleInternalNoteSave(value)
    \/ \E value \in SendDates, writeOk \in BOOLEAN : handleSendDateChange(value, writeOk)
    \/ handleDispatchEmail
    \/ CallSendDispatchEmail
    \/ \E to \in TestRecipients : TestCall(to)

SpecMail == InitMail /\ [][NextMail]_vars

\* --------------------------------------------------------------- order form
\* submitOrder of the order form, one step per await: addDoc, then up to
\* POLL_ATTEMPTS times getDoc and a sleep. The created order is the mail
\* model's order, and its on-create handler runs beside the poller.
POLL_ATTEMPTS == 5

POLL_INTERVAL_MS == 250

\* for (let i = 0; i < 5; i += 1): a loop with no bound.
AttemptsLeftAlways(i) == TRUE

AttemptsLeft(i) == i < POLL_ATTEMPTS

\* The first lines of submitOrder, up to the try.
Submitting(sub) ==
    [sub EXCEPT !.error = "", !.success = "", !.orderNumber = <<>>,
                !.isSubmitting = TRUE]

\* A poller whose exhaustion is reported as an error.
FinishOrFail(sub, updatedOrderNumber) ==
    IF updatedOrderNumber # <<>>
    THEN [sub EXCEPT !.pc = "done", !.updatedOrderNumber = updatedOrderNumber,
                     !.orderNumber = updatedOrderNumber, !.success = "numbered",
                     !.isModalOpen = TRUE, !.formFilled = FALSE,
                     !.isSubmitting = FALSE]
    ELSE [sub EXCEPT !.pc = "done", !.error = "no number", !.isSubmitting = FALSE]

\* After the loop: the number or null is shown with the success message,
\* the modal opens, the form is reset; finally isSubmitting goes off.
Finish(sub, updatedOrderNumber) ==
    [sub EXCEPT !.pc = "done", !.updatedOrderNumber = updatedOrderNumber,
                !.orderNumber = updatedOrderNumber,
                !.success = IF updatedOrderNumber # <<>> THEN "numbered" ELSE "plain",
                !.isModalOpen = TRUE, !.formFilled = FALSE,
                !.isSubmitting = FALSE]

\* catch (err): the message is set, the form is left as it is; finally.
Caught(sub, message) ==
    [sub EXCEPT !.pc = "form", !.error = message, !.isSubmitting = FALSE]

\* submitOrder with a form validate() refuses: the message, nothing else.
SubmitInvalid ==
    /\ submission.pc = "form"
    /\ submission.formFilled
    /\ ~submission.created
    /\ submission' = [submission EXCEPT !.error = "validation", !.success = "",
                                        !.orderNumber = <<>>]
    /\ UNCHANGED <<allocVars, stockVars, configVars, resolverVars, mailVars>>

\* submitOrder with a valid form, up to the end of addDoc.
SubmitForm(addOk) ==
    /\ submission.pc = "form"
    /\ submission.formFilled
    /\ ~submission.created
    /\ ~order.exists
    /\ IF addOk
       THEN /\ order' = FormOrder
            /\ draft' = [sendDate |-> FormOrder.sendDate]
            /\ submission' = [Submitting(submission) EXCEPT !.pc = "read", !.created = TRUE]
       ELSE /\ submission' = Caught(Submitting(submission), "addDoc")
            /\ UNCHANGED <<order, draft>>
    /\ UNCHANGED <<allocVars, stockVars, configVars, resolverVars, lastRun>>

\* The create event of the form's order, handled by emailOnOrderCreate.
HandleCreated(txOk, stampOk) ==
    /\ order.exists
    /\ lastRun = <<>>
    /\ OrderCreated(order, txOk, stampOk)

\* One getDoc of the created order and what follows it without an await:
\* with a number the loop is left and the submission finishes; without one
\* the sleep is started; a rejected read goes to the catch.
PollRead(readOk) ==
    /\ submission.pc = "read"
    /\ LET counted == [submission EXCEPT !.reads = @ + 1]
           nextNumber == order.orderNumber
       IN submission' =
              IF ~readOk THEN Caught(counted, "getDoc")
              ELSE IF nextNumber # <<>> THEN Finish(counted, nextNumber)
              ELSE [counted EXCEPT !.pc = "sleep", !.emptyReads = @ + 1]
    /\ UNCHANGED <<allocVars, stockVars, configVars, resolverVars, mailVars>>

\* The sleep's timer fires, i += 1, and the loop condition is tested: the
\* next read, or the end of the loop with no number.
PollSleep ==
    /\ submission.pc = "sleep"
    /\ LET slept == [submission EXCEPT !.sleeps = @ + 1,
                                       !.waited = @ + POLL_INTERVAL_MS]
       IN submission' =
              IF AttemptsLeft(slept.sleeps) THEN [slept EXCEPT !.pc = "read"]
              ELSE Finish(slept, <<>>)
    /\ UNCHANGED <<allocVars, stockVars, configVars, resolverVars, mailVars>>

InitSubmit ==
    /\ AllocIdle /\ StockIdle /\ ResolverIdle /\ MailIdle /\ ClientIdle
    /\ ConfigInit

NextSubmit ==
    \/ SubmitInvalid
    \/ \E addOk \in BOOLEAN : SubmitForm(addOk)
    \/ \E txOk, stampOk \in BOOLEAN : HandleCreated(txOk, stampOk)
    \/ \E readOk \in BOOLEAN : PollRead(readOk)
    \/ PollSleep

SpecSubmit == InitSubmit /\ [][NextSubmit]_vars

\* ----------------------------------------------------- allocator properties
Started == {i \in Invocations : inv[i].pc # "idle"}

Numbered == {id \in OrderIds : docs[id].exists /\ docs[id].orderNumber # <<>>}

CommittedNumbers == {commits[k] : k \in 1..Len(commits)}

\* C1: no two distinct orders of the stream carry the same order number.
C1_NoTwoOrdersShareNumber ==
    \A a, b \in Numbered : a # b => docs[a].orderNumber # docs[b].orderNumber

\* C2: an order's orderNumber, once non-empty, never changes while the order
\* exists, however often its on-create handler is invoked.
C2_NumberNeverReassigned ==
    [][\A id \in OrderIds :
          (docs[id].exists /\ docs[id].orderNumber # <<>> /\ docs'[id].exists)
              => docs'[id].orderNumber = docs[id].orderNumber]_vars

\* C3: from a stream with no counter record and no numbered order, N
\* allocations for N distinct orders that have all completed returned
\* exactly the numbers 1..N, each once, and each order still there carries
\* the number its allocation returned.
C3_Batch ==
    /\ initNumbers = {}
    /\ Started # {}
    /\ \A i \in Started : inv[i].pc = "emails" /\ inv[i].snap = <<>>
    /\ \A i, j \in Started : i # j => inv[i].id # inv[j].id

C3_FreshBatchYieldsOneToN ==
    C3_Batch =>
        /\ {inv[i].result : i \in Started}
               = {formatOrderNumber(k) : k \in 1..Cardinality(Started)}
        /\ \A i, j \in Started : i # j => inv[i].result # inv[j].result
        /\ \A i \in Started :
               docs[inv[i].id].exists => docs[inv[i].id].orderNumber = inv[i].result

\* The batch has completed, and the request that started first got the
\* higher number.
C3_Witness ==
    /\ C3_Batch
    /\ Cardinality(Started) >= 2
    /\ inv[1].result = formatOrderNumber(2)

\* C4: an invocation whose order data already carries a number returns that
\* number, and commits no counter transaction and stamps nothing.
C4_ShortCircuitReturnsSame ==
    \A i \in Invocations :
        inv[i].snap # <<>> =>
            /\ inv[i].pc = "emails"
            /\ inv[i].result = inv[i].snap
            /\ inv[i].next = 0

C4_Witness ==
    \E i \in Invocations :
        /\ inv[i].snap # <<>>
        /\ inv[i].result = inv[i].snap
        /\ counter.exists

\* C5 (as claimed): lastNumber is at least every value it held, and every
\* non-empty orderNumber on an order is the formatted form of a value
\* lastNumber holds or has held.
C5_EveryNumberIsHistorical ==
    /\ \A n \in CommittedNumbers : counter.lastNumber >= n
    /\ \A id \in Numbered :
           \E n \in CommittedNumbers : docs[id].orderNumber = formatOrderNumber(n)

\* C5 (amended): lastNumber is at least every value it held, and every
\* non-empty orderNumber on an order that was not on the stream before the
\* counter record existed is the formatted form of a value lastNumber holds
\* or has held.
C5_AllocatedNumberIsHistorical ==
    /\ \A n \in CommittedNumbers : counter.lastNumber >= n
    /\ \A id \in Numbered :
           docs[id].orderNumber \notin initNumbers =>
               \E n \in CommittedNumbers : docs[id].orderNumber = formatOrderNumber(n)

C5_Witness ==
    /\ Len(commits) >= 2
    /\ \E id \in Numbered : docs[id].orderNumber \notin initNumbers

\* C6: of two committed counter transactions the later one got the
\* strictly larger number.
C6_LaterCommitLargerNumber ==
    \A j, k \in 1..Len(commits) : j < k => commits[j] < commits[k]

\* Two commits, the invocation that started second committing first.
C6_Witness ==
    /\ Len(commits) >= 2
    /\ inv[1].next # 0
    /\ inv[2].next # 0
    /\ inv[2].next < inv[1].next

\* C7: after a stamping write failed, the counter is not below the reserved
\* number, no other allocation has reserved it, and no order carries it
\* unless it carried it before the counter record existed.
C7_FailedStampLeavesGap ==
    \A i \in Invocations :
        inv[i].pc = "stampFailed" =>
            /\ counter.exists
            /\ counter.lastNumber >= inv[i].next
            /\ \A j \in Invocations : j # i => inv[j].next # inv[i].next
            /\ \A id \in Numbered :
                   docs[id].orderNumber = formatOrderNumber(inv[i].next)
                       => docs[id].orderNumber \in initNumbers

\* A stamping write failed and a later allocation went on to the next number.
C7_Witness ==
    \E i, j \in Invocations :
        /\ inv[i].pc = "stampFailed"
        /\ inv[j].pc = "emails"
        /\ inv[j].next = inv[i].next + 1
        /\ counter.lastNumber = inv[j].next

\* C8: the first allocation of a stream without a counter record gets a
\* number strictly greater than every number already on the stream.
C8_BootstrapAboveEveryNumber ==
    Len(commits) >= 1 =>
        \A id \in LegacyIds :
            docs[id].exists => commits[1] > parseOrderNumber(docs[id].orderNumber)

\* ----------------------------------------------------- watcher properties
\* AT_OR_BELOW: a positive threshold and a quantity at or below it; ABOVE
\* otherwise (quantity above it, or threshold <= 0 or not a number).
AtOrBelow(doc) ==
    /\ doc.exists
    /\ toNumber(doc.threshold) > 0
    /\ toNumber(doc.quantity) <= toNumber(doc.threshold)

Above(doc) == doc.exists /\ ~AtOrBelow(doc)

\* C9: a write to an item that is AT_OR_BELOW before and after emits no
\* alert, and 10 -> 4 -> 3 at threshold 5 alerts once, at the first write.
C9_NoAlertWhileLow ==
    /\ \A k \in 1..Len(stockLog) :
           (AtOrBelow(stockLog[k].before) /\ AtOrBelow(stockLog[k].after))
               => stockLog[k].sent = 0
    /\ \A k \in 1..(Len(stockLog) - 1) :
           ( /\ stockLog[k].before = StockDoc(Fin(10), Fin(5))
             /\ stockLog[k].after = StockDoc(Fin(4), Fin(5))
             /\ stockLog[k + 1].after = StockDoc(Fin(3), Fin(5))
             /\ apiKey
             /\ adminEmail # <<>> )
               => (stockLog[k].sent = 1 /\ stockLog[k + 1].sent = 0)

\* C10: every write that takes an existing item from ABOVE to AT_OR_BELOW
\* makes the handler signal.
C10_EveryCrossingSignals ==
    \A k \in 1..Len(stockLog) :
        (Above(stockLog[k].before) /\ AtOrBelow(stockLog[k].after))
            => stockLog[k].signal

\* C11: a first write of an item (no before-state) signals exactly when the
\* item is already at or below a positive threshold; above it, or with a
\* threshold <= 0 or not a number, it does not.
C11_FirstWriteSignalsIffLow ==
    \A k \in 1..Len(stockLog) :
        (~stockLog[k].before.exists /\ stockLog[k].after.exists)
            => (stockLog[k].signal <=> AtOrBelow(stockLog[k].after))

\* An item added at quantity 3 with threshold 3: its first write signalled.
C11_Witness ==
    \E k \in 1..Len(stockLog) :
        /\ ~stockLog[k].before.exists
        /\ stockLog[k].after = StockDoc(Fin(3), Fin(3))
        /\ stockLog[k].signal

\* ---------------------------------------------------- resolver properties
\* The addresses of a configured string, read off the string itself: the
\* maximal runs of characters that are not separators, in their order.
TokenStarts(s) ==
    {i \in 1..Len(s) : ~IsSeparator(s[i]) /\ (i = 1 \/ IsSeparator(s[i - 1]))}

TokenEnd(s, i) ==
    CHOOSE j \in i..Len(s) :
        /\ \A k \in i..j : ~IsSeparator(s[k])
        /\ (j = Len(s) \/ IsSeparator(s[j + 1]))

NthStart(s, n) ==
    CHOOSE i \in TokenStarts(s) : Cardinality({j \in TokenStarts(s) : j < i}) = n - 1

TokensOf(s) ==
    [n \in 1..Cardinality(TokenStarts(s)) |->
        SubSeq(s, NthStart(s, n), TokenEnd(s, NthStart(s, n)))]

\* Every spelling of an excluded address.
ExcludedSpellings == {<<"b">>, <<"B">>, <<"a">>, <<"A">>}

NotExcluded(t) == t \notin ExcludedSpellings

KeptTokens(s) == SelectSeq(TokensOf(s), NotExcluded)

C13_ExactlyKeptTokens ==
    (resolved.done /\ adminEmail # <<>>) =>
        /\ resolved.recipients = KeptTokens(adminEmail)
        /\ \A k \in 1..Len(resolved.recipients) : NotExcluded(resolved.recipients[k])

\* C13 (amended): for a configured string of which at least one address
\* is left after the exclusions, the result is exactly those addresses, in
\* order and spelling; the result of any configured string holds no
\* excluded address in any letter case.
C13_KeptTokensWhenAny ==
    resolved.done =>
        /\ KeptTokens(adminEmail) # <<>> => resolved.recipients = KeptTokens(adminEmail)
        /\ \A k \in 1..Len(resolved.recipients) : NotExcluded(resolved.recipients[k])

\* "X;B" resolved to the one address "X".
C13_Witness ==
    /\ resolved.done
    /\ adminEmail = <<"X", ";", "B">>
    /\ resolved.recipients = << <<"X">> >>

\* C14: the resolved list holds no address twice.
C14_NoAddressTwice ==
    resolved.done =>
        \A j, k \in 1..Len(resolved.recipients) :
            j # k => resolved.recipients[j] # resolved.recipients[k]

\* -------------------------------------------------------- mail properties
Runs == {lastRun[k] : k \in 1..Len(lastRun)}

StatusChanges ==
    {run \in Runs : run.kind = "update" /\ run.previousStatus # run.nextStatus}

\* The sends a notifying handler makes for an order with this email when
\* everything is configured: the customer's if the order has an email, the
\* admins' if ADMIN_EMAIL is set.
DueSends(email) ==
    (IF email # <<>> THEN <<"customer">> ELSE <<>>)
        \o (IF adminEmail # <<>> THEN <<"admin">> ELSE <<>>)

\* Of the sends that are due, those made when a rejected send ends the
\* invocation: all of them, or the first alone when the transport rejects it.
UntilRejected(due) ==
    IF due # <<>> /\ transport[1] = "rejects" THEN <<due[1]>> ELSE due

\* C15: an update that leaves orderStatus as it was makes no send, whatever
\* it writes: the allocator's orderNumber, dispatchEmailSentAt, paid, the
\* tracking link, the internal note, the send date.
C15_NoSendWithoutStatusChange ==
    \A run \in Runs :
        (run.kind = "update" /\ run.previousStatus = run.nextStatus)
            => (run.calls = <<>> /\ run.error = "none")

\* The update event of the dispatch call's own write, for an order with an
\* email and every setting in place: handled without a send.
C15_Witness ==
    /\ apiKey
    /\ adminEmail # <<>>
    /\ \E run \in Runs :
           /\ run.kind = "update"
           /\ run.write = "dispatchEmailSentAt"
           /\ run.email # <<>>
           /\ run.previousStatus = run.nextStatus
           /\ run.calls = <<>>

\* C16: a status change into cancelled or archived, from any status, makes
\* no send.
C16_SuppressedStatusesSendNothing ==
    \A run \in StatusChanges :
        run.nextStatus \in {"cancelled", "archived"} => run.calls = <<>>

\* packed -> cancelled for an order with an email and every setting in
\* place.
C16_Witness ==
    /\ apiKey
    /\ adminEmail # <<>>
    /\ \E run \in StatusChanges :
           /\ run.previousStatus = "packed"
           /\ run.nextStatus = "cancelled"
           /\ run.email # <<>>
           /\ run.calls = <<>>

\* C17 (as claimed): a status change into a status other than cancelled or
\* archived makes exactly two sends, customer and admin, when the order has
\* an email, and exactly the admin send when it has none.
C17_TwoSendsOrAdminOnly ==
    \A run \in StatusChanges :
        run.nextStatus \notin {"cancelled", "archived"} =>
            run.calls = IF run.email # <<>> THEN <<"customer", "admin">> ELSE <<"admin">>

\* C17 (amended): with the transport credential configured, such a status
\* change makes the customer send exactly when the order has an email and
\* the admin send exactly when ADMIN_EMAIL is set, in that order and
\* nothing else, except that no send follows one the transport rejected;
\* without the credential it makes no send.
C17_SendsForWhoIsThere ==
    \A run \in StatusChanges :
        run.nextStatus \notin {"cancelled", "archived"} =>
            run.calls = IF apiKey THEN UntilRejected(DueSends(run.email)) ELSE <<>>

\* pending -> packed, two sends.
C17_Witness ==
    \E run \in StatusChanges :
        /\ run.previousStatus = "pending"
        /\ run.nextStatus = "packed"
        /\ run.calls = <<"customer", "admin">>

\* C18 (as claimed): an on-create invocation whose allocation succeeded
\* sent the customer email if the order has an email, and the admin copy if
\* there are admin recipients.
C18_EveryCreationNotifies ==
    \A run \in Runs :
        (run.kind = "create" /\ run.error # "allocation")
            => run.calls = DueSends(run.email)

\* C18 (amended): with the transport credential configured, an on-create
\* invocation whose allocation succeeded sent the customer email if the
\* order has an email and the admin copy if ADMIN_EMAIL is set; without the
\* credential it sent nothing, and ended with the configuration error if
\* one of the two was due.
C18_CreationNotifiesWhenConfigured ==
    \A run \in Runs :
        (run.kind = "create" /\ run.error # "allocation") =>
            /\ apiKey => run.calls = UntilRejected(DueSends(run.email))
            /\ (apiKey /\ transport = TransportUp) => run.error = "none"
            /\ ~apiKey =>
                   /\ run.calls = <<>>
                   /\ DueSends(run.email) # <<>> => run.error = "failed-precondition: key"

\* An order without an email, created and numbered: the admin copy alone.
C18_Witness ==
    \E run \in Runs :
        /\ run.kind = "create"
        /\ run.wrote
        /\ run.email = <<>>
        /\ run.calls = <<"admin">>

\* C19: a dispatch call for an order whose email or send date is empty is
\* rejected with an error, having sent and written nothing.
C19_DispatchNeedsEmailAndDate ==
    \A run \in Runs :
        (run.kind = "dispatch" /\ (trim(run.email) = <<>> \/ run.sendDate = <<>>)) =>
            /\ run.error # "none"
            /\ run.calls = <<>>
            /\ ~run.wrote

\* C20: without a transport credential no handler run makes a send, and
\* every run that had a send to make ended with the configuration error.
SendWasDue(run) ==
    CASE run.kind = "update" ->
             /\ run.previousStatus # run.nextStatus
             /\ run.nextStatus \notin {"cancelled", "archived"}
             /\ DueSends(run.email) # <<>>
      [] run.kind = "create" ->
             run.error # "allocation" /\ DueSends(run.email) # <<>>
      [] run.kind = "dispatch" -> trim(run.email) # <<>>
      [] run.kind = "test" -> \E k \in 1..Len(run.to) : run.to[k] # <<>>

C20_NoKeyFailsLoudly ==
    ~apiKey =>
        \A run \in Runs :
            /\ run.calls = <<>>
            /\ SendWasDue(run) => run.error = "failed-precondition: key"

\* Without the credential, a dispatch call for an order with an email and a
\* send date ended with the configuration error and wrote nothing.
C20_Witness ==
    /\ ~apiKey
    /\ \E run \in Runs :
           /\ run.kind = "dispatch"
           /\ run.email = <<"c">>
           /\ run.sendDate # <<>>
           /\ run.error = "failed-precondition: key"
           /\ ~run.wrote

\* C21 (as claimed): a sendEmail whose recipient list has no entry left
\* once the falsy ones are removed makes no send and raises no error,
\* whatever the configuration.
C21_EmptyListIsNoOp ==
    \A run \in Runs :
        (run.kind = "test" /\ \A k \in 1..Len(run.to) : run.to[k] = <<>>)
            => (run.calls = <<>> /\ run.error = "none")

\* C21 (amended): with the transport credential configured such a call
\* makes no send and raises no error; without it the call raises the
\* configuration error, and makes no send either.
C21_EmptyListIsNoOpWithKey ==
    \A run \in Runs :
        (run.kind = "test" /\ \A k \in 1..Len(run.to) : run.to[k] = <<>>) =>
            /\ run.calls = <<>>
            /\ run.error = IF apiKey THEN "none" ELSE "failed-precondition: key"

\* sendTestEmail without an address, the key configured: [""] is filtered
\* to nothing and the call returns.
C21_Witness ==
    /\ apiKey
    /\ \E run \in Runs :
           /\ run.kind = "test"
           /\ run.to = << <<>> >>
           /\ run.calls = <<>>
           /\ run.error = "none"

\* C22: a sendEmail with the credential and a recipient calls the transport
\* once; no invocation makes the same send twice; a send the transport
\* rejects is the last thing its invocation does, which ends with the
\* transport's error, and a dispatch call then leaves the order unwritten.
C22_OneCallAndFailuresPropagate ==
    \A run \in Runs :
        /\ (run.kind = "test" /\ apiKey /\ \E k \in 1..Len(run.to) : run.to[k] # <<>>)
               => Len(run.calls) = 1
        /\ \A j, k \in 1..Len(run.calls) : j # k => run.calls[j] # run.calls[k]
        /\ \A k \in 1..Len(run.calls) :
               transport[k] = "rejects" =>
                   /\ k = Len(run.calls)
                   /\ run.error = "transport"
                   /\ run.kind = "dispatch" => ~run.wrote
        /\ run.error = "transport" => transport[Len(run.calls)] = "rejects"

\* A dispatch email the transport rejected: one call, the error, no write.
C22_Witness ==
    \E run \in Runs :
        /\ run.kind = "dispatch"
        /\ run.calls = <<"customer">>
        /\ run.error = "transport"
        /\ ~run.wrote

\* C25: an on-create invocation that made a send had a number for the order
\* by then, the one its emails carry and the order carries: found on the
\* created order, or reserved in the counter and stamped by this
\* invocation. An invocation whose allocation failed made no send.
C25_NumberBeforeCreationEmails ==
    \A run \in Runs :
        run.kind = "create" =>
            /\ run.calls # <<>> =>
                   /\ run.orderNumber # <<>>
                   /\ order.orderNumber = run.orderNumber
                   /\ run.wrote =>
                          /\ counter.exists
                          /\ run.orderNumber = formatOrderNumber(counter.lastNumber)
                   /\ ~run.wrote => run.orderNumber \in ImportedNumbers
            /\ run.error = "allocation" => (run.calls = <<>> /\ order.orderNumber = <<>>)

\* Both creation emails sent for a form order, after #0001 was reserved and
\* stamped.
C25_Witness ==
    \E run \in Runs :
        /\ run.kind = "create"
        /\ run.wrote
        /\ run.calls = <<"customer", "admin">>
        /\ run.orderNumber = formatOrderNumber(1)
        /\ order.orderNumber = formatOrderNumber(1)
        /\ counter.lastNumber = 1

\* C28: in an on-create or status-change invocation the admin send is made
\* first only when the order has no email, and otherwise only after a
\* customer send the transport accepted; after a rejected customer send
\* the invocation makes no other send.
C28_AdminCopyAfterCustomerSend ==
    \A run \in Runs :
        run.kind \in {"create", "update"} =>
            /\ \A k \in 1..Len(run.calls) :
                   run.calls[k] = "admin" =>
                       \/ (k = 1 /\ run.email = <<>>)
                       \/ (k = 2 /\ run.calls[1] = "customer" /\ transport[1] = "accepts")
            /\ (run.calls # <<>> /\ run.calls[1] = "customer" /\ transport[1] = "rejects")
                   => run.calls = <<"customer">>

\* pending -> packed with admin recipients configured: the customer send
\* was rejected and the admin copy was not attempted.
C28_Witness ==
    /\ adminEmail # <<>>
    /\ \E run \in StatusChanges :
           /\ run.previousStatus = "pending"
           /\ run.nextStatus = "packed"
           /\ run.calls = <<"customer">>
           /\ run.error = "transport"

\* C26: every number the counter reached is formatted as "#" followed by
\* exactly ORDER_NUMBER_PAD decimal digits.
C26_FixedWidthNumber ==
    \A n \in CommittedNumbers :
        LET formatted == formatOrderNumber(n)
        IN /\ Len(formatted) = ORDER_NUMBER_PAD + 1
           /\ formatted[1] = "#"
           /\ \A k \in 2..Len(formatted) : IsDigit(formatted[k])
           /\ DigitsToNum(Tail(formatted)) = n

\* C27: no step brings an order into existence with a number on it (the
\* form creates orders without one), and no step adds a create event for
\* an order that has had one: the allocator writes to existing orders only.
C27_StampOnlyOnExistingOrder ==
    [][\A id \in OrderIds :
          /\ (~docs[id].exists /\ docs'[id].exists) => docs'[id].orderNumber = <<>>
          /\ \A e \in events' \ events : e.id = id => e.orderNumber = <<>>]_vars

\* ------------------------------------------------------ order form properties
\* The submission has left submitOrder's try block through its last lines.
Returned == submission.pc = "done"

\* The loop ran out: every one of the POLL_ATTEMPTS reads showed no number
\* and the last sleep is over.
Exhausted ==
    /\ submission.emptyReads = POLL_ATTEMPTS
    /\ submission.pc \notin {"read", "sleep"}

\* The state submitOrder leaves after a submission that succeeded.
SuccessState ==
    /\ submission.success \in {"numbered", "plain"}
    /\ submission.error = ""
    /\ submission.isModalOpen
    /\ ~submission.formFilled
    /\ ~submission.isSubmitting

\* C23: the poller reads the created order at most 5 times; it returns the
\* number at the first read that shows one, with no read after it and one
\* 250ms sleep after each read before it; it returns none after exactly 5
\* reads, each followed by a 250ms sleep.
C23_PollerBounded ==
    /\ submission.reads <= POLL_ATTEMPTS
    /\ submission.sleeps <= POLL_ATTEMPTS
    /\ submission.emptyReads <= submission.reads
    /\ submission.waited = submission.sleeps * POLL_INTERVAL_MS
    /\ submission.pc = "read" => submission.sleeps = submission.reads
    /\ submission.pc = "sleep" => submission.sleeps + 1 = submission.reads
    /\ (Returned /\ submission.updatedOrderNumber # <<>>) =>
          /\ submission.updatedOrderNumber = order.orderNumber
          /\ submission.emptyReads = submission.reads - 1
          /\ submission.sleeps = submission.emptyReads
    /\ (Returned /\ submission.updatedOrderNumber = <<>>) =>
          /\ submission.reads = POLL_ATTEMPTS
          /\ submission.emptyReads = POLL_ATTEMPTS
          /\ submission.sleeps = POLL_ATTEMPTS
          /\ submission.waited >= (POLL_ATTEMPTS - 1) * POLL_INTERVAL_MS

\* The poller gave up after five reads of an order that never got a number.
C23_Witness ==
    /\ Returned
    /\ submission.updatedOrderNumber = <<>>
    /\ submission.reads = POLL_ATTEMPTS
    /\ order.orderNumber = <<>>

\* C24: when the poller runs out of attempts, submitOrder ends in the
\* success state, with the message that carries no number, the modal open,
\* the form reset and no error.
C24_ExhaustionIsSuccess ==
    Exhausted =>
        /\ SuccessState
        /\ submission.success = "plain"
        /\ submission.orderNumber = <<>>

\* Five reads without a number, and the plain confirmation is shown.
C24_Witness ==
    /\ Exhausted
    /\ Returned
    /\ submission.success = "plain"
    /\ submission.sleeps = POLL_ATTEMPTS

\* C29: once addDoc has stored the order, submitOrder ends in the success
\* state: whenever it is no longer polling, the success message is shown
\* and no error is.
C29_StoredOrderEndsInSuccess ==
    (submission.created /\ submission.pc \notin {"read", "sleep"}) => SuccessState

\* ------------------------------------------------------- allocator liveness
Running(i) == inv[i].pc \in {"tx", "commit", "stamp"}

Failed(i) == inv[i].pc \in {"failed", "stampFailed"}

\* The invocation got through ensureOrderNumber and its order has a number.
HasNumber(i) ==
    /\ inv[i].pc = "emails"
    /\ docs[inv[i].id].exists
    /\ docs[inv[i].id].orderNumber # <<>>

\* An order that has a number has one after the step, if it is still there.
KeepsNumber ==
    \A id \in OrderIds :
        (docs[id].exists /\ docs[id].orderNumber # <<>> /\ docs'[id].exists)
            => docs'[id].orderNumber # <<>>

\* C30: with fair scheduling, every started on-create handler whose counter
\* transaction and stamping write do not fail eventually leaves its order
\* with a non-empty orderNumber, and an order that has a number keeps one
\* for as long as it exists.
C30_EventuallyNumbered ==
    /\ \A i \in Invocations : Running(i) ~> (HasNumber(i) \/ Failed(i))
    /\ [][KeepsNumber]_vars

\* A handler went through the transaction and the stamping write, and its
\* order carries the number it got.
C30_Witness ==
    \E i \in Invocations :
        /\ HasNumber(i)
        /\ inv[i].snap = <<>>
        /\ docs[inv[i].id].orderNumber = inv[i].result
        /\ Len(commits) > 0

====
